---- MODULE Spec2Model ----
(***************************************************************************)
(* MEETA DRIVE (src/meeta_drive.py): the cell addressing scheme, the       *)
(* formula evaluator, the cell/sheet store and the persistence layer.      *)
(*                                                                         *)
(* Python str values (formulas, cell values, cell references, sheet ids    *)
(* and names, file names) are sequences of one-character strings; file     *)
(* ids (uuid4) are numbered in the order they are drawn.                   *)
(* A Python value is a record tagged by t:                                 *)
(*   "absent" (no such key in the dict), "none", "str", "int", "float".    *)
(* A float is an IEEE 754 double: a finite (-1)^neg * m * 2^e, an infinity  *)
(* or nan.                                                                 *)
(***************************************************************************)
EXTENDS Integers, Sequences, FiniteSets, TLC

----------------------------------------------------------------------------
(* Python values *)

Absent == [t |-> "absent"]
PyNone == [t |-> "none"]
PyStr(s) == [t |-> "str", s |-> s]
PyInt(n) == [t |-> "int", n |-> n]

\* bool(v) as Python's `if v` / `and` see it; Absent is what dict.get turns into None
Truthy(v) ==
  CASE v.t = "absent" -> FALSE
    [] v.t = "none" -> FALSE
    [] v.t = "str" -> v.s # <<>>
    [] v.t = "int" -> v.n # 0
    [] v.t = "float" -> ~(v.k = "fin" /\ v.m = <<>>)

----------------------------------------------------------------------------
(* Text helpers: the str methods the code uses *)

UpperLetters == <<"A","B","C","D","E","F","G","H","I","J","K","L","M",
                  "N","O","P","Q","R","S","T","U","V","W","X","Y","Z">>
Digits == <<"0","1","2","3","4","5","6","7","8","9">>

IsUpper(c) == \E i \in 1..26 : UpperLetters[i] = c
IsDigit(c) == \E i \in 1..10 : Digits[i] = c
\* the characters without an escape, written as the characters themselves: \x0b
\* (vertical tab), \x1c, \x1d, \x1e, \x1f (the file, group, record and unit
\* separators), \x85 (next line) and \xa0 (no-break space)
C_0b == ""
C_1c == ""
C_1d == ""
C_1e == ""
C_1f == ""
C_85 == ""
C_a0 == " "

\* the white space float() drops at both ends of a str: the white space of C, and
\* the spaces outside ASCII, which float() turns into " " before it parses.  (A
\* string of this module holds the characters up to \xff; of the spaces beyond
\* them, U+1680, U+2000..U+200A, U+2028, U+2029, U+202F, U+205F and U+3000, none
\* can be written here.)
FloatSpaces == {" ", "\t", "\n", C_0b, "\f", "\r", C_85, C_a0}

\* the characters str.strip() removes (str.isspace): those, and the four
\* separators, which float() does not take for white space
Spaces == FloatSpaces \cup {C_1c, C_1d, C_1e, C_1f}

\* ord(char) - 64 for an uppercase letter
LetterOrd(c) == CHOOSE i \in 1..26 : UpperLetters[i] = c
DigitVal(c) == (CHOOSE i \in 1..10 : Digits[i] = c) - 1

\* s[a:b] with 1-based inclusive bounds, empty when a > b
Slice(s, a, b) == [i \in 1..(IF b >= a THEN b - a + 1 ELSE 0) |-> s[a + i - 1]]

StartsWith(s, p) == Len(s) >= Len(p) /\ Slice(s, 1, Len(p)) = p
EndsWith(s, p) == Len(s) >= Len(p) /\ Slice(s, Len(s) - Len(p) + 1, Len(s)) = p
Contains(s, c) == \E i \in 1..Len(s) : s[i] = c

\* s without the characters of the set chars at its two ends
StripOf(s, chars) ==
  LET keep == {i \in 1..Len(s) : s[i] \notin chars}
  IN IF keep = {} THEN <<>>
     ELSE Slice(s, CHOOSE i \in keep : \A j \in keep : i <= j,
                   CHOOSE i \in keep : \A j \in keep : i >= j)

\* str.strip()
Strip(s) == StripOf(s, Spaces)

\* str.split(c): the pieces between the occurrences of c, always at least one
RECURSIVE Split(_, _)
Split(s, c) ==
  IF ~Contains(s, c) THEN <<s>>
  ELSE LET k == CHOOSE i \in 1..Len(s) : s[i] = c /\ \A j \in 1..(i-1) : s[j] # c
       IN <<Slice(s, 1, k - 1)>> \o Split(Slice(s, k + 1, Len(s)), c)

\* int(digits) for a non-empty digit string
RECURSIVE TextToInt(_)
TextToInt(s) ==
  IF s = <<>> THEN 0
  ELSE 10 * TextToInt(Slice(s, 1, Len(s) - 1)) + DigitVal(s[Len(s)])

\* str(n) / f"{n}" for an integer
RECURSIVE NatToText(_)
NatToText(n) ==
  IF n < 10 THEN <<Digits[n + 1]>>
  ELSE NatToText(n \div 10) \o <<Digits[(n % 10) + 1]>>

IntToText(n) == IF n < 0 THEN <<"-">> \o NatToText(0 - n) ELSE NatToText(n)

----------------------------------------------------------------------------
(* Address codec *)

\* index_to_column: the loop prepends chr(65 + index % 26) and continues with
\* index // 26 - 1 while that is >= 0; a negative index yields ""
RECURSIVE index_to_column(_)
index_to_column(index) ==
  IF index < 0 THEN <<>>
  ELSE index_to_column((index \div 26) - 1) \o <<UpperLetters[(index % 26) + 1]>>

RECURSIVE column_acc(_)
column_acc(column) ==
  IF column = <<>> THEN 0
  ELSE column_acc(Slice(column, 1, Len(column) - 1)) * 26 + LetterOrd(column[Len(column)])

\* a decoder that forgets the final "- 1"
column_to_index_OneBased(column) == column_acc(column)

column_to_index(column) == column_acc(column) - 1

\* length of the longest prefix of s (from position `from`) whose characters satisfy
\* the class: the greedy [A-Z]+ and \d+ of the regular expression
UpperRun(s, from) ==
  CHOOSE n \in 0..(Len(s) - from + 1) :
    /\ \A i \in from..(from + n - 1) : IsUpper(s[i])
    /\ (from + n <= Len(s) => ~IsUpper(s[from + n]))
DigitRun(s, from) ==
  CHOOSE n \in 0..(Len(s) - from + 1) :
    /\ \A i \in from..(from + n - 1) : IsDigit(s[i])
    /\ (from + n <= Len(s) => ~IsDigit(s[from + n]))

NoMatch == [ok |-> FALSE]

\* cell_ref_to_indices: re.match anchors at the start only, so text after the digits
\* is ignored; None when there is no match
MatchGroups(cell_ref, nl, nd) ==
  IF nl = 0 \/ nd = 0 THEN NoMatch
  ELSE [ok |-> TRUE,
        rowIndex |-> TextToInt(Slice(cell_ref, nl + 1, nl + nd)) - 1,
        colIndex |-> column_to_index(Slice(cell_ref, 1, nl))]

MatchDigits(cell_ref, nl) == MatchGroups(cell_ref, nl, DigitRun(cell_ref, nl + 1))

cell_ref_to_indices(cell_ref) == MatchDigits(cell_ref, UpperRun(cell_ref, 1))

indices_to_cell_ref(row_index, col_index) ==
  index_to_column(col_index) \o IntToText(row_index + 1)

----------------------------------------------------------------------------
(* Natural numbers of any size, as Python's int and the exact value of a float
   need them: decimal digits 0..9, most significant first, no leading zero; zero
   is the empty sequence.  The small factor of DMul and DDiv is at most 2^26. *)

\* without leading zeros
DStrip(ds) ==
  IF \A i \in 1..Len(ds) : ds[i] = 0 THEN <<>>
  ELSE SubSeq(ds, CHOOSE i \in 1..Len(ds) : ds[i] # 0 /\ \A j \in 1..(i - 1) : ds[j] = 0,
              Len(ds))

\* how many zeros end the digits of a number that is not zero
TrailingZeros(ds) ==
  IF \A i \in 1..Len(ds) : ds[i] = 0 THEN Len(ds)
  ELSE Len(ds) - (CHOOSE i \in 1..Len(ds) :
                    ds[i] # 0 /\ \A j \in (i + 1)..Len(ds) : ds[j] = 0)

RECURSIVE NatDigits(_)
NatDigits(n) == IF n = 0 THEN <<>> ELSE Append(NatDigits(n \div 10), n % 10)

RECURSIVE DigitsToNat(_)
DigitsToNat(ds) ==
  IF ds = <<>> THEN 0 ELSE 10 * DigitsToNat(SubSeq(ds, 1, Len(ds) - 1)) + ds[Len(ds)]

DigitsOf(text) == [i \in 1..Len(text) |-> DigitVal(text[i])]
TextOf(ds) == [i \in 1..Len(ds) |-> Digits[ds[i] + 1]]
Zeros(n) == [i \in 1..n |-> 0]

RECURSIVE Pow2(_)
Pow2(k) == IF k = 0 THEN 1 ELSE 2 * Pow2(k - 1)
RECURSIVE Pow5(_)
Pow5(k) == IF k = 0 THEN 1 ELSE 5 * Pow5(k - 1)

\* The schoolbook algorithms below work on the digits lo..hi and split the range
\* in two, so that the nesting of the evaluation grows with the logarithm of the
\* length only.

\* digits lo..hi times k plus the carry that comes in from the right
RECURSIVE MulRange(_, _, _, _, _), MulLeft(_, _, _, _, _)
MulCat(l, r) == [ds |-> l.ds \o r.ds, c |-> l.c]
\* the right half is worked out first: its carry is needed by the left half
MulLeft(ds, lo, mid, k, r) ==
  IF r.c = 0 THEN MulCat(MulRange(ds, lo, mid, k, 0), r)
  ELSE MulCat(MulRange(ds, lo, mid, k, r.c), r)
MulRange(ds, lo, hi, k, carry) ==
  IF lo > hi THEN [ds |-> <<>>, c |-> carry]
  ELSE IF lo = hi
  THEN [ds |-> <<(ds[lo] * k + carry) % 10>>, c |-> (ds[lo] * k + carry) \div 10]
  ELSE MulLeft(ds, lo, (lo + hi) \div 2, k,
               MulRange(ds, ((lo + hi) \div 2) + 1, hi, k, carry))
MulDone(r) == NatDigits(r.c) \o r.ds
\* ds * k
DMul(ds, k) == MulDone(MulRange(ds, 1, Len(ds), k, 0))

\* digits lo..hi divided by k, with the remainder that comes in from the left
RECURSIVE DivRange(_, _, _, _, _), DivRight(_, _, _, _, _)
DivCat(l, r) == [q |-> l.q \o r.q, r |-> r.r]
DivRight(ds, mid, hi, k, l) == DivCat(l, DivRange(ds, mid + 1, hi, k, l.r))
DivRange(ds, lo, hi, k, rem) ==
  IF lo > hi THEN [q |-> <<>>, r |-> rem]
  ELSE IF lo = hi
  THEN [q |-> <<(rem * 10 + ds[lo]) \div k>>, r |-> (rem * 10 + ds[lo]) % k]
  ELSE DivRight(ds, (lo + hi) \div 2, hi, k,
                DivRange(ds, lo, (lo + hi) \div 2, k, rem))
DivDone(d) == [q |-> DStrip(d.q), r |-> d.r]
\* ds divided by k: quotient and remainder
DDiv(ds, k) == DivDone(DivRange(ds, 1, Len(ds), k, 0))

DPad(ds, n) == Zeros(n - Len(ds)) \o ds

DLess(a, b) ==
  \/ Len(a) < Len(b)
  \/ /\ Len(a) = Len(b)
     /\ \E i \in 1..Len(a) : a[i] < b[i] /\ \A j \in 1..(i - 1) : a[j] = b[j]

\* digits lo..hi of a and b added (sign = 1) or subtracted (sign = -1), with the
\* carry or borrow that comes in from the right
RECURSIVE AddRange(_, _, _, _, _, _), AddLeft(_, _, _, _, _, _)
AddLeft(a, b, lo, mid, sign, r) ==
  IF r.c = 0 THEN MulCat(AddRange(a, b, lo, mid, sign, 0), r)
  ELSE MulCat(AddRange(a, b, lo, mid, sign, r.c), r)
AddRange(a, b, lo, hi, sign, carry) ==
  IF lo > hi THEN [ds |-> <<>>, c |-> carry]
  ELSE IF lo = hi
  THEN [ds |-> <<(a[lo] + sign * (b[lo] + carry) + 10) % 10>>,
        c |-> IF sign = 1 THEN (a[lo] + b[lo] + carry) \div 10
              ELSE IF a[lo] - b[lo] - carry < 0 THEN 1 ELSE 0]
  ELSE AddLeft(a, b, lo, (lo + hi) \div 2, sign,
               AddRange(a, b, ((lo + hi) \div 2) + 1, hi, sign, carry))
AddSame(a, b) == MulDone(AddRange(a, b, 1, Len(a), 1, 0))
DAdd(a, b) ==
  IF Len(a) >= Len(b) THEN AddSame(a, DPad(b, Len(a))) ELSE AddSame(DPad(a, Len(b)), b)
\* a - b for a >= b
DSub(a, b) == DStrip(AddRange(a, DPad(b, Len(a)), 1, Len(a), 0 - 1, 0).ds)

IsOdd(ds) == ds # <<>> /\ ds[Len(ds)] % 2 = 1

\* ds * 2^s and ds * 5^k, by halves of the exponent down to one chunk
RECURSIVE DShl(_, _)
DShl(ds, s) ==
  IF ds = <<>> THEN ds
  ELSE IF s <= 26 THEN DMul(ds, Pow2(s)) ELSE DShl(DShl(ds, s \div 2), s - (s \div 2))
RECURSIVE DMul5(_, _)
DMul5(ds, k) ==
  IF ds = <<>> THEN ds
  ELSE IF k <= 11 THEN DMul(ds, Pow5(k)) ELSE DMul5(DMul5(ds, k \div 2), k - (k \div 2))

\* ds \div 2^s, and whether a one bit was shifted out (or sticky was set before)
RECURSIVE DShr(_, _, _)
ShrDone(d, sticky) == [q |-> d.q, sticky |-> sticky \/ d.r # 0]
ShrAgain(first, s) == DShr(first.q, s, first.sticky)
DShr(ds, s, sticky) ==
  IF ds = <<>> THEN [q |-> ds, sticky |-> sticky]
  ELSE IF s <= 26 THEN ShrDone(DDiv(ds, Pow2(s)), sticky)
  ELSE ShrAgain(DShr(ds, s \div 2, sticky), s - (s \div 2))

RECURSIVE SmallBits(_)
SmallBits(n) == IF n = 0 THEN 0 ELSE 1 + SmallBits(n \div 2)

\* int.bit_length(): three bits for every digit beyond the eighth are shifted out
\* at a time, which leaves more than seven digits
RECURSIVE BitLenFrom(_, _)
BitLenFrom(ds, acc) ==
  IF Len(ds) <= 8 THEN acc + SmallBits(DigitsToNat(ds))
  ELSE BitLenFrom(DShr(ds, 3 * (Len(ds) - 8), FALSE).q, acc + 3 * (Len(ds) - 8))
BitLen(ds) == BitLenFrom(ds, 0)

----------------------------------------------------------------------------
(* Numbers: IEEE 754 doubles, float(text), float addition and division, str *)

\* the double (-1)^neg * m * 2^e with m odd, below 2^53, and -1074 <= e
Double(neg, m, e) == [t |-> "float", k |-> "fin", neg |-> neg, m |-> m, e |-> e]
\* 0.0 and -0.0
Zero(neg) == Double(neg, <<>>, 0)
Inf(neg) == [t |-> "float", k |-> "inf", neg |-> neg, m |-> <<>>, e |-> 0]
NaN == [t |-> "float", k |-> "nan", neg |-> FALSE, m |-> <<>>, e |-> 0]

\* m / 2^c for the largest 2^c that divides m, trying 2^c, 2^(c/2), ... at a time
RECURSIVE StripTwos(_, _, _), StripStep(_, _, _, _)
StripStep(m, e, c, r) ==
  IF r.r = 0 THEN StripTwos(r.q, e + c, c) ELSE StripTwos(m, e, c \div 2)
StripTwos(m, e, c) ==
  IF c = 0 THEN [m |-> m, e |-> e]
  ELSE IF ~IsOdd(m) THEN StripStep(m, e, c, DDiv(m, Pow2(c)))
  ELSE [m |-> m, e |-> e]

\* overflow: a magnitude of 2^1024 or more is an infinity
Finite(neg, s) == IF BitLen(s.m) + s.e > 1024 THEN Inf(neg) ELSE Double(neg, s.m, s.e)

\* the double of the exact value m * 2^e, m of at most 53 bits
Normal(neg, m, e) == IF m = <<>> THEN Zero(neg) ELSE Finite(neg, StripTwos(m, e, 16))

\* round to nearest, ties to even: h is the kept part divided by two with the
\* guard bit as remainder, sticky tells whether anything below the guard was set
RoundUp(neg, h, sticky, t) ==
  Normal(neg, IF h.r = 1 /\ (sticky \/ IsOdd(h.q)) THEN DAdd(h.q, <<1>>) ELSE h.q, t)

RoundGuard(neg, r, t) == RoundUp(neg, DDiv(r.q, 2), r.sticky, t)

\* t is the exponent of the last kept bit: 53 bits, fewer for a subnormal
RoundTo(neg, n, x, sticky, t) ==
  IF t <= x THEN Normal(neg, n, x) ELSE RoundGuard(neg, DShr(n, t - x - 1, sticky), t)

\* the double nearest to n * 2^x (plus a positive amount below one unit of n when
\* sticky): what the hardware and strtod do with an exact result
Round(neg, n, x, sticky) ==
  RoundTo(neg, n, x, sticky, IF BitLen(n) + x - 53 > 0 - 1074 THEN BitLen(n) + x - 53 ELSE 0 - 1074)

\* dividing the digits by 5 k times when that is exact
RECURSIVE DivFives(_, _)
DivFives(ds, k) ==
  IF k = 0 THEN [ok |-> TRUE, q |-> ds]
  ELSE IF ds = <<>> \/ ds[Len(ds)] \notin {0, 5} THEN [ok |-> FALSE]
  ELSE DivFives(DDiv(ds, 5).q, k - 1)

\* ds * 2^s with s large enough to leave more than 17 digits after the last k
\* are dropped: four bits for every digit that is missing
WidenBy(ds, s) == [n |-> DShl(ds, s), s |-> s]
Widen(ds, k) == WidenBy(ds, IF k + 18 > Len(ds) THEN 4 * (k + 18 - Len(ds)) ELSE 0)

\* ds / 10^k is not a binary fraction: the quotient of ds * 2^s by 10^k always
\* leaves a remainder
Inexact(neg, w, k) == Round(neg, SubSeq(w.n, 1, Len(w.n) - k), 0 - w.s, TRUE)

Fraction(neg, ds, k, fives) ==
  IF fives.ok THEN Round(neg, fives.q, 0 - k, FALSE) ELSE Inexact(neg, Widen(ds, k), k)

\* ds * 10^e10 for digits without leading or trailing zero
Scaled(neg, ds, e10) ==
  IF e10 >= 0
  THEN IF Len(ds) + e10 > 310 THEN Inf(neg) ELSE Round(neg, ds \o Zeros(e10), 0, FALSE)
  ELSE IF Len(ds) + e10 < 0 - 330 THEN Zero(neg)
  ELSE Fraction(neg, ds, 0 - e10, DivFives(ds, 0 - e10))

Unscaled(neg, ds, z, e10) == Scaled(neg, SubSeq(ds, 1, Len(ds) - z), e10 + z)

Nonzero(neg, ds, e10) ==
  IF ds = <<>> THEN Zero(neg) ELSE Unscaled(neg, ds, TrailingZeros(ds), e10)

\* the correctly rounded double of the decimal number ds * 10^e10
DecimalToDouble(neg, ds, e10) == Nonzero(neg, DStrip(ds), e10)

ValueError == [ok |-> FALSE]
FloatOk(f) == [ok |-> TRUE, f |-> f]

LowerLetters == <<"a","b","c","d","e","f","g","h","i","j","k","l","m",
                  "n","o","p","q","r","s","t","u","v","w","x","y","z">>
\* str.lower() on ASCII text
Lower(s) == [i \in 1..Len(s) |-> IF IsUpper(s[i]) THEN LowerLetters[LetterOrd(s[i])] ELSE s[i]]

T_inf == <<"i","n","f">>
T_infinity == <<"i","n","f","i","n","i","t","y">>
T_nan == <<"n","a","n">>

\* an exponent of more than six digits is as good as one of 999999
ClampedNat(ds) == IF Len(ds) > 6 THEN 999999 ELSE DigitsToNat(ds)

\* the digits of the exponent run to the end of the text
ExponentDigits(negative, ds, nf, body, start, expneg) ==
  IF start > Len(body) \/ DigitRun(body, start) # Len(body) - start + 1 THEN ValueError
  ELSE FloatOk(DecimalToDouble(negative, ds,
         (IF expneg THEN 0 - 1 ELSE 1)
           * ClampedNat(DStrip(DigitsOf(Slice(body, start, Len(body))))) - nf))

\* pe is the position of the e; a sign may follow
ExponentSign(negative, ds, nf, body, pe) ==
  IF pe < Len(body) /\ body[pe + 1] \in {"+", "-"}
  THEN ExponentDigits(negative, ds, nf, body, pe + 2, body[pe + 1] = "-")
  ELSE ExponentDigits(negative, ds, nf, body, pe + 1, FALSE)

\* after the mantissa, which ends at pos: the end of the text, or an exponent
Exponent(negative, ds, nf, body, pos) ==
  IF pos = Len(body) THEN FloatOk(DecimalToDouble(negative, ds, 0 - nf))
  ELSE IF body[pos + 1] \notin {"e", "E"} THEN ValueError
  ELSE ExponentSign(negative, ds, nf, body, pos + 1)

\* ni integer digits, np = 1 for a point, nf fraction digits; at least one digit
Mantissa(negative, body, ni, np, nf) ==
  IF ni + nf = 0 THEN ValueError
  ELSE Exponent(negative,
                DigitsOf(Slice(body, 1, ni) \o Slice(body, ni + np + 1, ni + np + nf)),
                nf, body, ni + np + nf)

FractionDigits(negative, body, ni, point) ==
  Mantissa(negative, body, ni, IF point THEN 1 ELSE 0,
           IF point THEN DigitRun(body, ni + 2) ELSE 0)

IntegerDigits(negative, body, ni) ==
  FractionDigits(negative, body, ni, ni < Len(body) /\ body[ni + 1] = ".")

Unsigned(negative, body) == IntegerDigits(negative, body, DigitRun(body, 1))

\* an underscore is allowed between two digits only
UnderscoresOk(body) ==
  \A i \in 1..Len(body) :
    body[i] = "_" => i > 1 /\ i < Len(body) /\ IsDigit(body[i - 1]) /\ IsDigit(body[i + 1])

NotUnderscore(c) == c # "_"

\* inf, infinity and nan in any case; else a decimal number
Signed(negative, body) ==
  IF Lower(body) \in {T_inf, T_infinity} THEN FloatOk(Inf(negative))
  ELSE IF Lower(body) = T_nan THEN FloatOk(NaN)
  ELSE IF ~UnderscoresOk(body) THEN ValueError
  ELSE Unsigned(negative, SelectSeq(body, NotUnderscore))

ParseStripped(s) ==
  Signed(s # <<>> /\ s[1] = "-",
         IF s # <<>> /\ s[1] \in {"+", "-"} THEN Tail(s) ELSE s)

\* float(text): the white space at both ends is dropped (a separator \x1c..\x1f,
\* which str.strip() removes, is a ValueError here); then an optional sign and inf,
\* infinity or nan, or digits with at most one point, at least one digit, single
\* underscores between digits and an optional exponent; anything else is a
\* ValueError.  The value is the nearest double, an infinity beyond the range.
\* (The decimal digits float() reads besides 0..9 all lie beyond \xff.)
ParseFloat(text) == ParseStripped(StripOf(text, FloatSpaces))

Abs(n) == IF n < 0 THEN 0 - n ELSE n

\* float(n) for an int
IntToDouble(n) == Round(n < 0, NatDigits(Abs(n)), 0, FALSE)

\* float(v) for a cell value: a str is parsed, a number is converted
ToFloat(v) ==
  CASE v.t = "str" -> ParseFloat(v.s)
    [] v.t = "int" -> FloatOk(IntToDouble(v.n))
    [] v.t = "float" -> FloatOk(v)
    [] OTHER -> ValueError

\* both magnitudes as multiples of 2^x, x the smaller exponent
AddAligned(an, a, bn, b, x) ==
  IF an = bn THEN Round(an, DAdd(a, b), x, FALSE)
  ELSE IF a = b THEN Zero(FALSE)
  ELSE IF DLess(a, b) THEN Round(bn, DSub(b, a), x, FALSE)
  ELSE Round(an, DSub(a, b), x, FALSE)

AddFinite(a, b, x) == AddAligned(a.neg, DShl(a.m, a.e - x), b.neg, DShl(b.m, b.e - x), x)

\* a + b on doubles
FAdd(a, b) ==
  IF a.k = "nan" \/ b.k = "nan" THEN NaN
  ELSE IF a.k = "inf" THEN (IF b.k = "inf" /\ b.neg # a.neg THEN NaN ELSE a)
  ELSE IF b.k = "inf" THEN b
  ELSE IF a.m = <<>> THEN (IF b.m = <<>> THEN Zero(a.neg /\ b.neg) ELSE b)
  ELSE IF b.m = <<>> THEN a
  ELSE AddFinite(a, b, IF a.e <= b.e THEN a.e ELSE b.e)

AsDouble(v) == IF v.t = "int" THEN IntToDouble(v.n) ELSE v

\* acc + f where f is a float: the result is a float even when acc is the int 0
AddFloat(acc, f) == FAdd(AsDouble(acc), f.f)

RECURSIVE TwosOf(_)
TwosOf(n) == IF n % 2 = 0 THEN 1 + TwosOf(n \div 2) ELSE 0

\* m * 2^e / odd: exact when odd divides m, else from a quotient with 104 more bits
DivOdd(neg, m, e, odd, r) ==
  IF r.r = 0 THEN Round(neg, r.q, e, FALSE)
  ELSE Round(neg, DDiv(DShl(m, 104), odd).q, e - 104, TRUE)

DivFinite(x, count, twos) ==
  DivOdd(x.neg, x.m, x.e - twos, count \div Pow2(twos), DDiv(x.m, count \div Pow2(twos)))

\* x / count for a double and a positive int below 2^26
FDivInt(x, count) ==
  IF x.k # "fin" \/ x.m = <<>> THEN x ELSE DivFinite(x, count, TwosOf(count))

\* the exact decimal digits of m * 2^e, and how many of them follow the point
ExactDigits(v) ==
  IF v.e >= 0 THEN [ds |-> DShl(v.m, v.e), nf |-> 0]
  ELSE [ds |-> DMul5(v.m, 0 - v.e), nf |-> 0 - v.e]

Significant(ds, decpt) == [ds |-> SubSeq(ds, 1, Len(ds) - TrailingZeros(ds)), decpt |-> decpt]

RoundTrips(v, ds, e10) == DecimalToDouble(v.neg, ds, e10) = v

\* whether the digits after the first p are more than half a unit of digit p
\* (a half itself goes to the even digit)
UpCloser(ds, p) ==
  \/ ds[p + 1] > 5
  \/ /\ ds[p + 1] = 5
     /\ \/ \E i \in (p + 2)..Len(ds) : ds[i] # 0
        \/ ds[p] % 2 = 1

\* repr: the shortest digit string that float reads back as v, and among those of
\* that length the one nearest to v.  lo is v cut to p digits, hi the next one up
RECURSIVE Shortest(_, _, _, _), Candidates(_, _, _, _, _, _)
Candidates(v, ds, decpt, p, lo, hi) ==
  IF UpCloser(ds, p) /\ RoundTrips(v, hi, decpt - p)
  THEN Significant(hi, decpt + Len(hi) - p)
  ELSE IF RoundTrips(v, lo, decpt - p) THEN Significant(lo, decpt)
  ELSE IF RoundTrips(v, hi, decpt - p) THEN Significant(hi, decpt + Len(hi) - p)
  ELSE Shortest(v, ds, decpt, p + 1)
Shortest(v, ds, decpt, p) ==
  IF p >= Len(ds) THEN Significant(ds, decpt)
  ELSE Candidates(v, ds, decpt, p, SubSeq(ds, 1, p), DAdd(SubSeq(ds, 1, p), <<1>>))

\* up to 15 digits name one double only; beyond, shorter strings are tried
ShortestOf(v, x) ==
  IF Len(x.ds) - TrailingZeros(x.ds) <= 15 THEN Significant(x.ds, Len(x.ds) - x.nf)
  ELSE Shortest(v, x.ds, Len(x.ds) - x.nf, 1)

\* the exponent with its sign and at least two digits
ExponentText(x) ==
  (IF x < 0 THEN <<"-">> ELSE <<"+">>)
    \o (IF Abs(x) < 10 THEN <<"0">> ELSE <<>>) \o NatToText(Abs(x))

\* float_repr_style 'short': exponent notation when the point would stand more
\* than 16 digits right of the first digit or more than 3 zeros left of it
FormatDigits(ds, decpt) ==
  IF decpt > 16 \/ decpt < 0 - 3
  THEN <<ds[1]>> \o (IF Len(ds) > 1 THEN <<".">> \o Tail(ds) ELSE <<>>)
         \o <<"e">> \o ExponentText(decpt - 1)
  ELSE IF decpt <= 0 THEN <<"0", ".">> \o TextOf(Zeros(0 - decpt)) \o ds
  ELSE IF decpt >= Len(ds) THEN ds \o TextOf(Zeros(decpt - Len(ds))) \o <<".", "0">>
  ELSE SubSeq(ds, 1, decpt) \o <<".">> \o SubSeq(ds, decpt + 1, Len(ds))

FormatShortest(s) == FormatDigits(TextOf(s.ds), s.decpt)

\* repr(x) of a float, which str(x) and json.dump use
FloatRepr(v) ==
  (IF v.neg THEN <<"-">> ELSE <<>>)
    \o (CASE v.k = "nan" -> T_nan
          [] v.k = "inf" -> T_inf
          [] v.m = <<>> -> <<"0", ".", "0">>
          [] OTHER -> FormatShortest(ShortestOf(v, ExactDigits(v))))

\* str(v) of a Python value
PyToText(v) ==
  CASE v.t = "str" -> v.s
    [] v.t = "none" -> <<"N","o","n","e">>
    [] v.t = "int" -> IntToText(v.n)
    [] v.t = "float" -> FloatRepr(v)

----------------------------------------------------------------------------
(* Sheets: id, name and the cells dict in insertion order *)

NewCell(ref) == [ref |-> ref, value |-> Absent, formula |-> Absent, cachedValue |-> Absent]

HasCell(sheet, ref) == \E i \in 1..Len(sheet.cells) : sheet.cells[i].ref = ref
CellIndex(sheet, ref) == CHOOSE i \in 1..Len(sheet.cells) : sheet.cells[i].ref = ref
CellOf(sheet, ref) == sheet.cells[CellIndex(sheet, ref)]

----------------------------------------------------------------------------
(* Formula evaluator *)

Raise == [t |-> "raise"]

\* the loop body shared by the three aggregations:
\*   if cell_ref in sheet['cells'] and sheet['cells'][cell_ref].get('value'):
\*       try: float(...)  except ValueError: pass
\* yields the float of the cell, or ValueError when the cell is skipped
CellNumber(sheet, cell_ref) ==
  IF HasCell(sheet, cell_ref) /\ Truthy(CellOf(sheet, cell_ref).value)
  THEN ToFloat(CellOf(sheet, cell_ref).value)
  ELSE ValueError

\* the references of the rectangle, row by row, as the nested loops visit them
RECURSIVE RectRefs(_, _, _, _, _, _)
RectRefs(row, col, min_col, max_row, max_col, acc) ==
  IF row > max_row THEN acc
  ELSE IF col > max_col THEN RectRefs(row + 1, min_col, min_col, max_row, max_col, acc)
  ELSE RectRefs(row, col + 1, min_col, max_row, max_col,
                Append(acc, indices_to_cell_ref(row, col)))

\* a rectangle that starts at the corner written first
Min_First(a, b) == a

Min(a, b) == IF a <= b THEN a ELSE b
Max(a, b) == IF a >= b THEN a ELSE b

RangeRefs(s, e) ==
  RectRefs(Min(s.rowIndex, e.rowIndex), Min(s.colIndex, e.colIndex),
           Min(s.colIndex, e.colIndex),
           Max(s.rowIndex, e.rowIndex), Max(s.colIndex, e.colIndex), <<>>)

\* try: sum_value += float(value)  except ValueError: pass
AddCell(acc, f) == IF f.ok THEN AddFloat(acc, f) ELSE acc

\* sum_value = 0; for each ref: sum_value += float(value)
RECURSIVE SumOver(_, _, _, _)
SumOver(sheet, refs, i, acc) ==
  IF i > Len(refs) THEN acc
  ELSE SumOver(sheet, refs, i + 1, AddCell(acc, CellNumber(sheet, refs[i])))

\* an aggregation that counts every skipped cell as a zero
AppendCell_CountsSkipped(acc, f) ==
  Append(acc, IF f.ok THEN f ELSE FloatOk(Zero(FALSE)))

\* try: values.append(float(value))  except ValueError: pass
AppendCell(acc, f) == IF f.ok THEN Append(acc, f) ELSE acc

\* values = [...]: the floats found, in visiting order
RECURSIVE ValuesOver(_, _, _, _)
ValuesOver(sheet, refs, i, acc) ==
  IF i > Len(refs) THEN acc
  ELSE ValuesOver(sheet, refs, i + 1, AppendCell(acc, CellNumber(sheet, refs[i])))

\* sum(values): the built-in starts from the int 0
RECURSIVE SumValues(_, _, _)
SumValues(values, i, acc) ==
  IF i > Len(values) THEN acc ELSE SumValues(values, i + 1, AddFloat(acc, values[i]))

\* a list whose items keep their surrounding whitespace
StripRefs_Keeps(parts) == parts

StripRefs(parts) == [i \in 1..Len(parts) |-> Strip(parts[i])]

TextSUM == <<"S","U","M","(">>
TextAVERAGE == <<"A","V","E","R","A","G","E","(">>

\* formula[1:].strip() if formula.startswith('=') else formula.strip()
FormulaText(formula) ==
  IF StartsWith(formula, <<"=">>) THEN Strip(Slice(formula, 2, Len(formula)))
  ELSE Strip(formula)

\* sum(values) / len(values)
Quotient(total, count) == FDivInt(AsDouble(total), count)

\* if values: return sum(values) / len(values); return 0
Mean(values) ==
  IF values # <<>> THEN Quotient(SumValues(values, 1, PyInt(0)), Len(values)) ELSE PyInt(0)

\* if start_indices and end_indices: ...; otherwise the fallback
AverageCorners(formula_text, s, e, sheet) ==
  IF s.ok /\ e.ok THEN Mean(ValuesOver(sheet, RangeRefs(s, e), 1, <<>>))
  ELSE PyStr(formula_text)

\* start_ref, end_ref = range_text.split(":")
AverageRange(formula_text, parts, sheet) ==
  IF Len(parts) # 2 THEN Raise
  ELSE AverageCorners(formula_text, cell_ref_to_indices(parts[1]),
                      cell_ref_to_indices(parts[2]), sheet)

AverageOf(formula_text, range_text, sheet) ==
  IF Contains(range_text, ":") THEN AverageRange(formula_text, Split(range_text, ":"), sheet)
  ELSE PyStr(formula_text)

\* the AVERAGE branch and the fallback of parse_formula (lines 131-160)
ParseAverage(formula_text, sheet) ==
  IF StartsWith(formula_text, TextAVERAGE) /\ EndsWith(formula_text, <<")">>)
  THEN AverageOf(formula_text, Slice(formula_text, 9, Len(formula_text) - 1), sheet)
  ELSE PyStr(formula_text)

\* if start_indices and end_indices: ...; otherwise control falls through to the
\* AVERAGE test
SumCorners(formula_text, s, e, sheet) ==
  IF s.ok /\ e.ok THEN SumOver(sheet, RangeRefs(s, e), 1, PyInt(0))
  ELSE ParseAverage(formula_text, sheet)

\* start_ref, end_ref = range_text.split(":")
SumRange(formula_text, parts, sheet) ==
  IF Len(parts) # 2 THEN Raise
  ELSE SumCorners(formula_text, cell_ref_to_indices(parts[1]),
                  cell_ref_to_indices(parts[2]), sheet)

SumOf(formula_text, range_text, sheet) ==
  IF Contains(range_text, ":") THEN SumRange(formula_text, Split(range_text, ":"), sheet)
  ELSE SumOver(sheet, StripRefs(Split(range_text, ",")), 1, PyInt(0))

ParseText(formula_text, sheet) ==
  IF StartsWith(formula_text, TextSUM) /\ EndsWith(formula_text, <<")">>)
  THEN SumOf(formula_text, Slice(formula_text, 5, Len(formula_text) - 1), sheet)
  ELSE ParseAverage(formula_text, sheet)

\* parse_formula(formula, sheet): a number, a str, or the ValueError that unpacking
\* range_text.split(":") into two names raises when there is more than one colon
parse_formula(formula, sheet) == ParseText(FormulaText(formula), sheet)

----------------------------------------------------------------------------
(* Bounds of the model and the inputs the operations draw from *)

\* how many operations that add content (update_cell, add_sheet, rename_sheet, a
\* save that reaches the file system) one run performs
MaxOps == 3

T_sheet == <<"s","h","e","e","t">>
T_Sheet == <<"S","h","e","e","t">>

\* f"sheet{n}" and f"Sheet{n}"
SheetId(n) == T_sheet \o IntToText(n)
SheetName(n) == T_Sheet \o IntToText(n)

\* an id no add_sheet produces
UnknownSheetId == <<"n","o","n","e">>
NewNames == {<<"R">>}
\* <<>> stands for the falsy name (None or "")
T_doc == <<"d","o","c">>
SaveNames == {<<>>, T_doc}
\* the names of the files of the data directory: uuid.uuid4() hands 1, 2, ... to
\* this session; 0 is the id of a file that an earlier session created
FileIds == 0..MaxOps
OtherFileIds == {0}
\* what datetime.now() reads: naive local time, which a change of the time zone or
\* of the system clock sets back, so that a later call may read the earlier instant
Times == {1, 2}

A1 == <<"A","1">>
B1 == <<"B","1">>

F_SumRange == <<"=","S","U","M","(","A","1",":","B","1",")">>
F_TwoColons == <<"=","S","U","M","(","A","1",":","B","1",":","C","1",")">>
V_Five == <<"5">>
V_Nine == <<"9">>

NoData == [value |-> Absent, formula |-> Absent, cachedValue |-> Absent]

\* the dicts commit_formula_value and handle_edited_cells build: the field that is
\* set, and the other one set to None
Literal(text) == [NoData EXCEPT !.value = PyStr(text), !.formula = PyNone]
Formula(text) == [NoData EXCEPT !.formula = PyStr(text), !.value = PyNone]
\* partial updates: one key only
OnlyFormula(text) == [NoData EXCEPT !.formula = PyStr(text)]
OnlyCached(text) == [NoData EXCEPT !.cachedValue = PyStr(text)]

Refs == {A1, B1}
Updates ==
  { Literal(V_Five), Formula(F_SumRange), Formula(F_TwoColons),
    OnlyFormula(F_SumRange), OnlyCached(V_Nine) }

----------------------------------------------------------------------------
(* State *)

VARIABLES
  spreadsheet_data,  \* st.session_state.spreadsheet_data: activeSheet, sheets
  current_file,      \* st.session_state.current_file: None or id, name, timestamps
  is_modified,       \* st.session_state.is_modified
  formula_value,     \* st.session_state.formula_value: a str, or None after some clicks
  active_cell,       \* st.session_state.active_cell
  data_dir,          \* the files <id>.json of the data directory
  uuids,             \* how many ids uuid.uuid4() has produced
  ops,               \* content-adding operations performed so far (bounded by MaxOps)
  cvOnlyUsed,        \* history: some update_cell carried neither value nor formula
  last,              \* history: what the step before was when a save, a load or a cell click
  call               \* the call in progress: a save between open and json.dump, or an
                     \* address-codec call with its arguments and what it returned

vars == <<spreadsheet_data, current_file, is_modified, formula_value, active_cell,
          data_dir, uuids, ops, cvOnlyUsed, last, call>>

\* no call is in progress
NoCall == [fn |-> "none"]

NoFile == [some |-> FALSE]
NoCell == [some |-> FALSE]

NoRecord == [kind |-> "missing"]
\* the file right after open(path, 'w'): it exists and holds nothing
Empty == [kind |-> "empty"]
\* a file that holds the beginning of a record's text and not all of it: what a
\* write that failed on the way leaves.  json.load rejects it, as it rejects Empty
Partial == [kind |-> "partial"]

EmptySheet(n) == [id |-> SheetId(n), name |-> SheetName(n), cells |-> <<>>]

\* the dict built at lines 22-31 and again at 253-262
FreshDocument == [activeSheet |-> SheetId(1), sheets |-> <<EmptySheet(1)>>]

Sheets == spreadsheet_data.sheets

SheetIds(sheets) == {sheets[i].id : i \in 1..Len(sheets)}

\* the ids the sheet operations are called with: every id of the document, the id
\* the active-sheet pointer holds, and one id that names no sheet
SheetIdArgs == SheetIds(Sheets) \cup {spreadsheet_data.activeSheet, UnknownSheetId}

\* next((s for s in sheets if s['id'] == sheet_id), None): position of the first match, 0 for None
FindSheet(sheets, sheet_id) ==
  IF \E i \in 1..Len(sheets) : sheets[i].id = sheet_id
  THEN CHOOSE i \in 1..Len(sheets) :
         sheets[i].id = sheet_id /\ \A j \in 1..(i-1) : sheets[j].id # sheet_id
  ELSE 0

----------------------------------------------------------------------------
(* Cell store *)

\* evaluate_worksheet_formulas from cell i on: each cell with a truthy formula gets
\* cachedValue = parse_formula(...); an exception leaves the rest as it was
RECURSIVE EvalFrom(_, _), StoreResult(_, _, _)
StoreResult(worksheet, i, r) ==
  IF r = Raise THEN [sheet |-> worksheet, raised |-> TRUE]
  ELSE EvalFrom([worksheet EXCEPT !.cells[i].cachedValue = r], i + 1)

EvalFrom(worksheet, i) ==
  IF i > Len(worksheet.cells) THEN [sheet |-> worksheet, raised |-> FALSE]
  ELSE IF Truthy(worksheet.cells[i].formula)
  THEN StoreResult(worksheet, i, parse_formula(worksheet.cells[i].formula.s, worksheet))
  ELSE EvalFrom(worksheet, i + 1)

evaluate_worksheet_formulas(worksheet) == EvalFrom(worksheet, 1)

\* sheet['cells'][cell_ref][key] = value for every key of data
MergeCell(cell, data) ==
  [ref |-> cell.ref,
   value |-> IF data.value # Absent THEN data.value ELSE cell.value,
   formula |-> IF data.formula # Absent THEN data.formula ELSE cell.formula,
   cachedValue |-> IF data.cachedValue # Absent THEN data.cachedValue ELSE cell.cachedValue]

\* lines 175-179 of update_cell: create the cell when missing, then merge
WriteCell(sheet, cell_ref, data) ==
  LET cells == IF HasCell(sheet, cell_ref) THEN sheet.cells
               ELSE Append(sheet.cells, NewCell(cell_ref))
      k == CHOOSE i \in 1..Len(cells) : cells[i].ref = cell_ref
  IN [sheet EXCEPT !.cells = [cells EXCEPT ![k] = MergeCell(cells[k], data)]]

\* 'formula' in data or 'value' in data
TouchesContent(data) == data.formula # Absent \/ data.value # Absent

\* update_cell(sheet_id, cell_ref, data)
update_cell(sheet_id, cell_ref, data) ==
  LET k == FindSheet(Sheets, sheet_id)
      written == WriteCell(Sheets[k], cell_ref, data)
      ev == evaluate_worksheet_formulas(written)
  IN /\ ops < MaxOps
     /\ ops' = ops + 1
     /\ last' = "other"
     /\ UNCHANGED <<current_file, formula_value, active_cell, data_dir, uuids, call>>
     /\ IF k = 0
        THEN UNCHANGED <<spreadsheet_data, is_modified, cvOnlyUsed>>
        ELSE /\ is_modified' = TRUE
             /\ cvOnlyUsed' = (cvOnlyUsed \/ ~TouchesContent(data))
             /\ spreadsheet_data' =
                  [spreadsheet_data EXCEPT
                     !.sheets[k] = IF TouchesContent(data) THEN ev.sheet ELSE written]

\* get_cell_display_value(cell) for a cell of the dict
get_cell_display_value(cell) ==
  IF Truthy(cell.formula)
  THEN IF cell.cachedValue # Absent THEN PyToText(cell.cachedValue)
       ELSE cell.formula.s
  ELSE IF cell.value # Absent THEN PyToText(cell.value)
  ELSE <<>>

\* what the grid shows for a reference: cells.get(cell_ref, {}) renders as ""
DisplayAt(sheet, ref) ==
  IF HasCell(sheet, ref) THEN get_cell_display_value(CellOf(sheet, ref)) ELSE <<>>

----------------------------------------------------------------------------
(* Sheet operations *)

new_spreadsheet ==
  /\ spreadsheet_data' = FreshDocument
  /\ current_file' = NoFile
  /\ is_modified' = FALSE
  /\ active_cell' = NoCell
  /\ formula_value' = PyStr(<<>>)
  /\ last' = "other"
  /\ UNCHANGED <<data_dir, uuids, ops, cvOnlyUsed, call>>

add_sheet ==
  /\ ops < MaxOps
  /\ ops' = ops + 1
  /\ spreadsheet_data' =
       [activeSheet |-> SheetId(Len(Sheets) + 1),
        sheets |-> Append(Sheets, EmptySheet(Len(Sheets) + 1))]
  /\ is_modified' = TRUE
  /\ last' = "other"
  /\ UNCHANGED <<current_file, formula_value, active_cell, data_dir, uuids, cvOnlyUsed, call>>

\* [s for s in sheets if s['id'] != sheet_id]
RECURSIVE WithoutId(_, _)
WithoutId(sheets, sheet_id) ==
  IF sheets = <<>> THEN <<>>
  ELSE (IF Head(sheets).id # sheet_id THEN <<Head(sheets)>> ELSE <<>>)
         \o WithoutId(Tail(sheets), sheet_id)

\* remove_sheet(sheet_id).  When the filter leaves no sheet and the removed id was
\* the active one, sheets[0] raises IndexError after the list was assigned and
\* before is_modified is set
remove_sheet(sheet_id) ==
  LET rest == WithoutId(Sheets, sheet_id)
  IN /\ last' = "other"
     /\ UNCHANGED <<current_file, formula_value, active_cell, data_dir, uuids, ops,
                    cvOnlyUsed, call>>
     /\ IF Len(Sheets) <= 1
        THEN UNCHANGED <<spreadsheet_data, is_modified>>
        ELSE IF spreadsheet_data.activeSheet = sheet_id
        THEN IF rest = <<>>
             THEN /\ spreadsheet_data' = [spreadsheet_data EXCEPT !.sheets = rest]
                  /\ UNCHANGED is_modified
             ELSE /\ spreadsheet_data' = [activeSheet |-> rest[1].id, sheets |-> rest]
                  /\ is_modified' = TRUE
        ELSE /\ spreadsheet_data' = [spreadsheet_data EXCEPT !.sheets = rest]
             /\ is_modified' = TRUE

rename_sheet(sheet_id, new_name) ==
  LET k == FindSheet(Sheets, sheet_id)
  IN /\ ops < MaxOps
     /\ ops' = ops + 1
     /\ last' = "other"
     /\ UNCHANGED <<current_file, formula_value, active_cell, data_dir, uuids, cvOnlyUsed, call>>
     /\ IF k = 0
        THEN UNCHANGED <<spreadsheet_data, is_modified>>
        ELSE /\ spreadsheet_data' = [spreadsheet_data EXCEPT !.sheets[k].name = new_name]
             /\ is_modified' = TRUE

set_active_sheet(sheet_id) ==
  /\ spreadsheet_data' = [spreadsheet_data EXCEPT !.activeSheet = sheet_id]
  /\ last' = "other"
  /\ UNCHANGED <<current_file, is_modified, formula_value, active_cell, data_dir, uuids,
                 ops, cvOnlyUsed, call>>

----------------------------------------------------------------------------
(* Persistence *)

\* json.dump followed by json.load on a cell value: None <-> null, str and int come
\* back as they were; a finite float is written as its repr and read by float, nan
\* and the infinities as NaN, Infinity and -Infinity; a key that is absent stays absent
JsonValue(v) ==
  CASE v.t = "absent" -> Absent
    [] v.t = "none" -> PyNone
    [] v.t = "str" -> PyStr(v.s)
    [] v.t = "int" -> PyInt(v.n)
    [] v.t = "float" -> IF v.k = "fin" THEN ParseFloat(FloatRepr(v)).f ELSE v

\* a serializer that loses the 'value' key of every cell
JsonCell_DropsValue(c) ==
  [ref |-> c.ref, value |-> Absent, formula |-> JsonValue(c.formula),
   cachedValue |-> JsonValue(c.cachedValue)]

JsonCell(c) ==
  [ref |-> c.ref, value |-> JsonValue(c.value), formula |-> JsonValue(c.formula),
   cachedValue |-> JsonValue(c.cachedValue)]

JsonSheet(sh) ==
  [id |-> sh.id, name |-> sh.name, cells |-> [i \in 1..Len(sh.cells) |-> JsonCell(sh.cells[i])]]

\* the 'data' member of the record as it reads back from the file
JsonData(d) ==
  [activeSheet |-> d.activeSheet, sheets |-> [i \in 1..Len(d.sheets) |-> JsonSheet(d.sheets[i])]]

OpenOutcomes == {"ok", "open_fails"}
\* json.dump and the close at the end of the with block: the whole text reaches
\* the file and nothing raises, or an OSError is raised with nothing, a part or
\* all of the text in the file (the text is buffered: what failed may be a
\* write of the flush, or the close after it)
DumpOutcomes == {"ok", "nothing_written", "part_written", "all_written"}

\* a save that clears the dirty flag before it knows that the write succeeded
SaveFailed_ClearsModified ==
  /\ UNCHANGED current_file
  /\ is_modified' = FALSE
  /\ call' = NoCall
  /\ last' = "save_failed"

\* the except branch of save_spreadsheet (lines 228-230): report and return False;
\* neither current_file nor is_modified was assigned
SaveFailed ==
  /\ UNCHANGED <<current_file, is_modified>>
  /\ call' = NoCall
  /\ last' = "save_failed"

\* lines 206-219: the identity the save is about to write
FileData(name, now) ==
  [some |-> TRUE,
   id |-> IF current_file.some THEN current_file.id ELSE uuids + 1,
   name |-> IF name # <<>> THEN name ELSE current_file.name,
   updatedAt |-> now,
   createdAt |-> IF current_file.some THEN current_file.createdAt ELSE now]

\* save_spreadsheet(name) up to open(file_path, 'w') (lines 203-222), with now the
\* time datetime.now() reads.  A save without a name and without a current file
\* is refused.  open may fail and leave the directory as it was; when it succeeds
\* the file is empty, whatever it held, until json.dump has written the record
save_spreadsheet(name, now, outcome) ==
  /\ UNCHANGED <<spreadsheet_data, formula_value, active_cell, cvOnlyUsed>>
  /\ IF name = <<>> /\ ~current_file.some
     THEN /\ outcome = "ok"
          /\ UNCHANGED <<current_file, is_modified, data_dir, uuids, ops, call>>
          /\ last' = "save_failed"
     ELSE /\ ops < MaxOps
          /\ ops' = ops + 1
          /\ uuids' = IF current_file.some THEN uuids ELSE uuids + 1
          /\ IF outcome = "ok"
             THEN /\ data_dir' = [data_dir EXCEPT ![FileData(name, now).id] = Empty]
                  /\ call' = [fn |-> "save_spreadsheet", file_data |-> FileData(name, now),
                              replaced |-> data_dir[FileData(name, now).id]]
                  /\ UNCHANGED <<current_file, is_modified>>
                  /\ last' = "saving"
             ELSE SaveFailed /\ UNCHANGED data_dir

\* the record json.dump writes: the identity and the document
Written(file_data, data) ==
  [kind |-> "record", id |-> file_data.id, name |-> file_data.name, data |-> JsonData(data),
   updatedAt |-> file_data.updatedAt, createdAt |-> file_data.createdAt]

\* the rest of save_spreadsheet (lines 223-230): json.dump writes the record into
\* the file that the open of this call emptied, then current_file and is_modified
\* are assigned; when the write raises, the file keeps what reached it and the
\* except branch runs
json_dump(outcome) ==
  /\ call.fn = "save_spreadsheet"
  /\ UNCHANGED <<spreadsheet_data, formula_value, active_cell, uuids, ops, cvOnlyUsed>>
  /\ IF outcome = "ok"
     THEN /\ data_dir' = [data_dir EXCEPT
                            ![call.file_data.id] = Written(call.file_data, spreadsheet_data)]
          /\ current_file' = call.file_data
          /\ is_modified' = FALSE
          /\ call' = NoCall
          /\ last' = "save_ok"
     ELSE /\ data_dir' = [data_dir EXCEPT
                            ![call.file_data.id] =
                               CASE outcome = "nothing_written" -> Empty
                                 [] outcome = "part_written" -> Partial
                                 [] outcome = "all_written" ->
                                      Written(call.file_data, spreadsheet_data)]
          /\ SaveFailed

\* the loop of lines 243-244: evaluate each sheet in turn, stop at an exception
RECURSIVE EvalSheetsFrom(_, _), StoreSheet(_, _, _)
StoreSheet(sheets, i, ev) ==
  IF ev.raised THEN [sheets |-> [sheets EXCEPT ![i] = ev.sheet], raised |-> TRUE]
  ELSE EvalSheetsFrom([sheets EXCEPT ![i] = ev.sheet], i + 1)

EvalSheetsFrom(sheets, i) ==
  IF i > Len(sheets) THEN [sheets |-> sheets, raised |-> FALSE]
  ELSE StoreSheet(sheets, i, evaluate_worksheet_formulas(sheets[i]))

\* a load that takes the creation time from the time of the last update
Restore_ForgetsCreatedAt(rec, ev, reload) ==
  /\ spreadsheet_data' = [activeSheet |-> rec.data.activeSheet, sheets |-> ev.sheets]
  /\ current_file' = [some |-> TRUE, id |-> rec.id, name |-> rec.name,
                      updatedAt |-> rec.updatedAt, createdAt |-> rec.updatedAt]
  /\ is_modified' = FALSE
  /\ last' = IF ev.raised THEN "load_failed"
             ELSE IF reload THEN "reload_ok" ELSE "load_ok"

\* lines 238-246: the three assignments, then the evaluation of the sheets (the
\* cells are shared with spreadsheet_data, so what was evaluated before an
\* exception stays).  The history value tells a load of the record that the
\* operation just before it saved ("reload") from any other load
Restore(rec, ev, reload) ==
  /\ spreadsheet_data' = [activeSheet |-> rec.data.activeSheet, sheets |-> ev.sheets]
  /\ current_file' = [some |-> TRUE, id |-> rec.id, name |-> rec.name,
                      updatedAt |-> rec.updatedAt, createdAt |-> rec.createdAt]
  /\ is_modified' = FALSE
  /\ last' = IF ev.raised THEN "load_failed"
             ELSE IF reload THEN "reload_ok" ELSE "load_ok"

\* load_spreadsheet(file_id): open or json.load fail before anything is assigned;
\* an exception of the evaluation comes after the three assignments
load_spreadsheet(file_id) ==
  /\ UNCHANGED <<formula_value, active_cell, data_dir, uuids, ops, cvOnlyUsed, call>>
  /\ IF data_dir[file_id].kind # "record"
     THEN /\ UNCHANGED <<spreadsheet_data, current_file, is_modified>>
          /\ last' = "load_failed"
     ELSE Restore(data_dir[file_id], EvalSheetsFrom(data_dir[file_id].data.sheets, 1),
                  last = "save_ok" /\ current_file.id = file_id)

----------------------------------------------------------------------------
(* The data directory when the session starts.  The model follows one session
   and the directory it uses: the files that earlier sessions left are there
   from the start, and while the session runs it alone writes the directory *)

\* the document an earlier session saved: sheet1 with the literal 5 at A1
OtherData ==
  [activeSheet |-> SheetId(1),
   sheets |-> <<[EmptySheet(1) EXCEPT !.cells = <<MergeCell(NewCell(A1), Literal(V_Five))>>]>>]

NoFiles == [f \in FileIds |-> NoRecord]

\* the record of the first save of that document, at time now (lines 212-219:
\* createdAt and updatedAt are the same reading of the clock)
FirstRecord(file_id, now) ==
  [kind |-> "record", id |-> file_id, name |-> T_doc, data |-> JsonData(OtherData),
   updatedAt |-> now, createdAt |-> now]

\* the directory when the session starts (lines 45-50 create it only when it is
\* missing): without files, or with the file of an earlier session, which its
\* save wrote whole or which a failed write of it left
StartDirs ==
  {NoFiles}
    \cup {[NoFiles EXCEPT ![f] = FirstRecord(f, 1)] : f \in OtherFileIds}
    \cup {[NoFiles EXCEPT ![f] = Partial] : f \in OtherFileIds}

----------------------------------------------------------------------------
(* Specification *)

Init ==
  /\ spreadsheet_data = FreshDocument
  /\ current_file = NoFile
  /\ is_modified = FALSE
  /\ formula_value = PyStr(<<>>)
  /\ active_cell = NoCell
  /\ data_dir \in StartDirs
  /\ uuids = 0
  /\ ops = 0
  /\ cvOnlyUsed = FALSE
  /\ call = NoCall
  /\ last = "other"

\* the script of a session runs one handler at a time
Idle == call = NoCall

NewSpreadsheet == Idle /\ new_spreadsheet
AddSheet == Idle /\ add_sheet
RemoveSheet == Idle /\ \E sheet_id \in SheetIdArgs : remove_sheet(sheet_id)
RenameSheet ==
  Idle /\ \E sheet_id \in SheetIdArgs, new_name \in NewNames : rename_sheet(sheet_id, new_name)
SetActiveSheet == Idle /\ \E sheet_id \in SheetIdArgs : set_active_sheet(sheet_id)
UpdateCell ==
  Idle /\ \E sheet_id \in SheetIdArgs, cell_ref \in Refs, data \in Updates :
            update_cell(sheet_id, cell_ref, data)
SaveSpreadsheet ==
  Idle /\ \E name \in SaveNames, now \in Times, outcome \in OpenOutcomes :
            save_spreadsheet(name, now, outcome)
JsonDump == \E outcome \in DumpOutcomes : json_dump(outcome)
LoadSpreadsheet == Idle /\ \E file_id \in FileIds : load_spreadsheet(file_id)

Next ==
  \/ NewSpreadsheet
  \/ AddSheet
  \/ RemoveSheet
  \/ RenameSheet
  \/ SetActiveSheet
  \/ UpdateCell
  \/ SaveSpreadsheet
  \/ JsonDump
  \/ LoadSpreadsheet

Spec == Init /\ [][Next]_vars

\* The store on its own: every operation that changes the content of the document
\* or of the directory, without the changes of the view (set_active_sheet)
NextStore ==
  \/ NewSpreadsheet
  \/ AddSheet
  \/ RemoveSheet
  \/ RenameSheet
  \/ UpdateCell
  \/ SaveSpreadsheet
  \/ JsonDump
  \/ LoadSpreadsheet

SpecStore == Init /\ [][NextStore]_vars

----------------------------------------------------------------------------
(* The evaluator on its own: a sheet of literal cells, and formulas committed to
   a third cell *)

C1ref == <<"C","1">>

V_Two == <<"2">>
V_NotNumeric == <<"x">>
EvalValues == {V_Two, V_NotNumeric}

F_SumHello == <<"=","S","U","M","(","h","e","l","l","o",")">>
F_SumEmpty == <<"=","S","U","M","(",")">>
F_SumSingle == <<"=","S","U","M","(","A","1",")">>
F_SumTrailing == <<"=","S","U","M","(","A","1","x",":","B","1",")">>
F_SumLower == <<"=","S","U","M","(","a","1",":","b","1",")">>
F_SumList == <<"=","S","U","M","(","A","1",",","B","1",")">>
F_Foo == <<"=","F","O","O","(","A","1",":","B","1",")">>
F_AverageList == <<"=","A","V","E","R","A","G","E","(","A","1",",","B","1",")">>
F_AverageRange == <<"=","A","V","E","R","A","G","E","(","A","1",":","B","1",")">>

EvalFormulas ==
  { F_SumRange, F_SumList, F_AverageRange, F_SumHello, F_SumEmpty, F_SumSingle,
    F_SumTrailing, F_SumLower, F_Foo, F_AverageList }

\* the cell a literal commit leaves: update_cell(..., {'value': text, 'formula': None})
LiteralCell(ref, text) == MergeCell(NewCell(ref), Literal(text))

\* sheet1 after literal commits to A1 and B1, in that order, each optional
EvalSheets ==
  { [EmptySheet(1) EXCEPT !.cells = a \o b] :
      a \in {<<>>} \cup {<<LiteralCell(A1, v)>> : v \in EvalValues},
      b \in {<<>>} \cup {<<LiteralCell(B1, v)>> : v \in EvalValues} }

InitEval ==
  /\ \E sh \in EvalSheets :
       spreadsheet_data = [activeSheet |-> SheetId(1), sheets |-> <<sh>>]
  /\ current_file = NoFile
  /\ is_modified = TRUE
  /\ formula_value = PyStr(<<>>)
  /\ active_cell = NoCell
  /\ data_dir = NoFiles
  /\ uuids = 0
  /\ ops = 0
  /\ cvOnlyUsed = FALSE
  /\ call = NoCall
  /\ last = "other"

CommitFormula == \E f \in EvalFormulas : update_cell(SheetId(1), C1ref, Formula(f))

NextEval == CommitFormula

SpecEval == InitEval /\ [][NextEval]_vars

----------------------------------------------------------------------------
(* Properties *)

Cells(sheet) == {sheet.cells[i] : i \in 1..Len(sheet.cells)}
AllSheets == {Sheets[i] : i \in 1..Len(Sheets)}
IsFormulaCell(c) == Truthy(c.formula)

\* C1: after any sequence of operations the document contains at least one sheet
\* (no remove_sheet leaves the sheet sequence empty).
C1_AtLeastOneSheet == Len(Sheets) >= 1

\* C2: in every reachable state the active-sheet pointer is the id of a sheet of
\* the document's sheet sequence.
C2_ActiveSheetPresent == spreadsheet_data.activeSheet \in SheetIds(Sheets)

\* C3: for every formula text a cell holds, evaluating it against its sheet returns
\* a number or a text and never raises.
C3_EvaluateNeverRaises ==
  \A sh \in AllSheets : \A c \in Cells(sh) :
    IsFormulaCell(c) => parse_formula(c.formula.s, sh).t \in {"int", "float", "str"}

\* C4: in any state reached by set_cell updates that contain the formula or the
\* value field, every cell with a non-empty formula has a cachedValue equal to the
\* evaluation of its formula against the sheet as it is.
C4_FormulaCellsCurrent ==
  ~cvOnlyUsed =>
    \A sh \in AllSheets : \A c \in Cells(sh) :
      IsFormulaCell(c) => c.cachedValue = parse_formula(c.formula.s, sh)

\* C5: a failed load leaves the sheets, cells, active-sheet pointer, current-file
\* identity and dirty flag exactly as they were before the load was attempted.
C5_FailedLoadChangesNothing ==
  [][last' = "load_failed" =>
       UNCHANGED <<spreadsheet_data, current_file, is_modified>>]_vars

\* C6: setting a cell's formula clears its value and setting its value clears its
\* formula: no cell holds both a non-empty value and a non-empty formula.
C6_ValueXorFormula ==
  \A sh \in AllSheets : \A c \in Cells(sh) : ~(Truthy(c.value) /\ Truthy(c.formula))

\* the content the dirty flag is about: the sheet sequence (ids, names, order) and
\* every cell's value and formula
ContentCell(c) == [ref |-> c.ref, value |-> c.value, formula |-> c.formula]
ContentSheet(sh) ==
  [id |-> sh.id, name |-> sh.name, cells |-> {ContentCell(c) : c \in Cells(sh)}]
Content(d) == [i \in 1..Len(d.sheets) |-> ContentSheet(d.sheets[i])]

\* C7: whenever the dirty flag is false and the document has a persisted record,
\* the in-memory sheet sequence and every cell's value and formula equal those of
\* the persisted record with the document's id.
C7_CleanMeansPersisted ==
  (~is_modified /\ current_file.some /\ data_dir[current_file.id].kind = "record")
    => Content(spreadsheet_data) = Content(data_dir[current_file.id].data)

\* every display value of a document: per sheet, per reference
AllDisplays(d) ==
  [i \in 1..Len(d.sheets) |-> [r \in Refs |-> DisplayAt(d.sheets[i], r)]]

\* a load of the id that the save just before it returned, whether the load
\* reports success or not
ReloadStep ==
  /\ last = "save_ok"
  /\ last' \in {"reload_ok", "load_failed"}
  /\ current_file'.some /\ current_file'.id = current_file.id

\* C8 (as stated): after a successful save followed by a load of the returned id
\* with no operation in between, every cell's display value equals its display
\* value before the save (the save itself leaves the document as it was).
C8_RoundTripKeepsDisplay ==
  [][ReloadStep =>
       AllDisplays(spreadsheet_data') = AllDisplays(spreadsheet_data)]_vars

\* C8 (amended): the same, for documents reached through set_cell updates that
\* each contain the formula or the value field.
C8_RoundTripKeepsDisplayOfContentEdits ==
  [][(ReloadStep /\ ~cvOnlyUsed) =>
       AllDisplays(spreadsheet_data') = AllDisplays(spreadsheet_data)]_vars

\* a reloaded document, edited only through content updates, that shows a literal
\* and a formula cell whose cached number is computed from it
C8_Witness ==
  /\ last = "reload_ok"
  /\ ~cvOnlyUsed
  /\ \E sh \in AllSheets :
       /\ HasCell(sh, A1) /\ DisplayAt(sh, A1) = V_Five
       /\ HasCell(sh, B1) /\ IsFormulaCell(CellOf(sh, B1))
       /\ DisplayAt(sh, B1) = <<"5", ".", "0">>

\* C9: a failed save (write failure, or refused for lack of a name) leaves the dirty
\* flag, the in-memory document and the current-file identity as they were.
C9_FailedSaveChangesNothing ==
  [][last' = "save_failed" =>
       UNCHANGED <<is_modified, spreadsheet_data, current_file>>]_vars

\* a dirty document that was saved before, right after a save of it failed in the
\* write, with a part of the text in the file
C9_Witness ==
  /\ last = "save_failed"
  /\ is_modified
  /\ current_file.some
  /\ data_dir[current_file.id] = Partial

----------------------------------------------------------------------------
(* The supported formula shapes, as the specification words them *)

\* one or more uppercase letters followed by one or more digits that denote a
\* positive integer, and nothing else
IsReference(t) ==
  LET nl == UpperRun(t, 1)
      nd == DigitRun(t, nl + 1)
  IN nl > 0 /\ nd > 0 /\ nl + nd = Len(t) /\ TextToInt(Slice(t, nl + 1, Len(t))) > 0

\* two references separated by exactly one colon
IsRange(arg) ==
  LET parts == Split(arg, ":")
  IN Len(parts) = 2 /\ IsReference(parts[1]) /\ IsReference(parts[2])

\* two or more references separated by commas, each trimmed
IsReferenceList(arg) ==
  LET parts == Split(arg, ",")
  IN Len(parts) >= 2 /\ \A i \in 1..Len(parts) : IsReference(Strip(parts[i]))

\* the formula without its "=" prefix
BodyOf(formula) == IF formula # <<>> /\ formula[1] = "=" THEN Tail(formula) ELSE formula

SupportedShape(body) ==
  \/ /\ StartsWith(body, TextSUM) /\ EndsWith(body, <<")">>)
     /\ LET arg == Slice(body, Len(TextSUM) + 1, Len(body) - 1)
        IN IsRange(arg) \/ IsReferenceList(arg)
  \/ /\ StartsWith(body, TextAVERAGE) /\ EndsWith(body, <<")">>)
     /\ IsRange(Slice(body, Len(TextAVERAGE) + 1, Len(body) - 1))

\* C10: when the function name is not SUM or AVERAGE, or the argument is neither a
\* range of two valid references nor (for SUM) a list of two or more references,
\* the evaluation is the formula body as text, never a number.
C10_UnsupportedShapeIsText ==
  \A sh \in AllSheets : \A c \in Cells(sh) :
    (IsFormulaCell(c) /\ ~SupportedShape(BodyOf(c.formula.s)))
      => c.cachedValue = PyStr(BodyOf(c.formula.s))

----------------------------------------------------------------------------
(* The aggregations on a grid: literal cells at A1, A2, B1 and B2, and formulas
   committed to C1 *)

A2 == <<"A","2">>
B2 == <<"B","2">>
A3 == <<"A","3">>
B3 == <<"B","3">>

V_Empty == <<>>
V_Zero == <<"0">>
V_Six == <<"6">>
V_OneAndHalf == <<"1",".","5">>
\* ten, as float reads it: an exponent, and white space around the number
V_TenExp == <<C_0b,"1","e","1"," ">>
\* five between a no-break space and a next-line character, which float() drops
V_FivePadded == <<C_a0,"5",C_85>>
\* the texts a literal commit stores: empty, not numeric, and five numbers
AggValues == {V_Empty, V_NotNumeric, V_Zero, V_Six, V_OneAndHalf, V_TenExp, V_FivePadded}

F_AverageA1B2 == <<"=","A","V","E","R","A","G","E","(","A","1",":","B","2",")">>
F_AverageB2A1 == <<"=","A","V","E","R","A","G","E","(","B","2",":","A","1",")">>
F_AverageA1A3 == <<"=","A","V","E","R","A","G","E","(","A","1",":","A","3",")">>
F_SumA1B2 == <<"=","S","U","M","(","A","1",":","B","2",")">>
F_SumB2A1 == <<"=","S","U","M","(","B","2",":","A","1",")">>
F_SumA2B1 == <<"=","S","U","M","(","A","2",":","B","1",")">>
F_SumB1A2 == <<"=","S","U","M","(","B","1",":","A","2",")">>
F_SumA1B3 == <<"=","S","U","M","(","A","1",":","B","3",")">>
F_SumB3A1 == <<"=","S","U","M","(","B","3",":","A","1",")">>
F_SumList3 == <<"=","S","U","M","(","A","1",",","B","1",",","A","2",")">>
F_SumListSpaced == <<"=","S","U","M","(","A","1",",",C_1c,"B","2",C_a0,",","A","2",")">>
\* white space around the body, which the strip of line 92 removes
F_SumPadded == <<"=",C_a0,"S","U","M","(","A","1",":","B","2",")",C_85>>
F_AveragePadded == <<"=",C_1f,"A","V","E","R","A","G","E","(","A","1",":","B","2",")",C_a0>>
F_AverageList3 == <<"=","A","V","E","R","A","G","E","(","A","1",",","B","1",",","A","2",")">>
F_AverageList2 == <<"=","A","V","E","R","A","G","E","(","A","1",",","B","2",")">>

AverageRangeFormulas == {F_AverageA1B2, F_AverageB2A1, F_AverageA1A3, F_AveragePadded}
SumRangeFormulas ==
  {F_SumA1B2, F_SumB2A1, F_SumA2B1, F_SumB1A2, F_SumA1B3, F_SumB3A1, F_SumPadded}
SumListFormulas == {F_SumList3, F_SumListSpaced}
AverageListFormulas == {F_AverageList3, F_AverageList2}
AggFormulas ==
  AverageRangeFormulas \cup SumRangeFormulas \cup SumListFormulas \cup AverageListFormulas

\* the cell of one reference: none, or the cell a literal commit leaves
AggCell(ref) == {<<>>} \cup {<<LiteralCell(ref, v)>> : v \in AggValues}

\* sheet1 after literal commits to A1, A2, B1 and B2, in that order, each optional;
\* InitAgg leaves room for one more operation, the commit of the formula
AggSheets ==
  { [EmptySheet(1) EXCEPT !.cells = a \o b \o c \o d] :
      a \in AggCell(A1), b \in AggCell(A2), c \in AggCell(B1), d \in AggCell(B2) }

InitAgg ==
  /\ \E sh \in AggSheets :
       spreadsheet_data = [activeSheet |-> SheetId(1), sheets |-> <<sh>>]
  /\ current_file = NoFile
  /\ is_modified = TRUE
  /\ formula_value = PyStr(<<>>)
  /\ active_cell = NoCell
  /\ data_dir = NoFiles
  /\ uuids = 0
  /\ ops = MaxOps - 1
  /\ cvOnlyUsed = FALSE
  /\ last = "other"
  /\ call = NoCall

CommitAggregate == \E f \in AggFormulas : update_cell(SheetId(1), C1ref, Formula(f))

NextAgg == CommitAggregate

SpecAgg == InitAgg /\ [][NextAgg]_vars

----------------------------------------------------------------------------
(* What the specification expects of an aggregation, computed from the cells *)

\* the cells a range formula covers: every reference of the rectangle between
\* its corners, whichever corner is written first
RectOf(f) ==
  CASE f \in {F_AverageA1B2, F_AverageB2A1, F_AveragePadded,
              F_SumA1B2, F_SumB2A1, F_SumA2B1, F_SumB1A2, F_SumPadded}
         -> {A1, A2, B1, B2}
    [] f = F_AverageA1A3 -> {A1, A2, A3}
    [] f \in {F_SumA1B3, F_SumB3A1} -> {A1, A2, A3, B1, B2, B3}

\* the cells a list formula names
ListOf(f) ==
  CASE f = F_SumList3 -> {A1, B1, A2}
    [] f = F_SumListSpaced -> {A1, B2, A2}

\* the number a text denotes, in halves
HalvesOf(text) ==
  CASE text = V_Zero -> 0
    [] text = V_Six -> 12
    [] text = V_OneAndHalf -> 3
    [] text = V_TenExp -> 20
    [] text = V_FivePadded -> 10

\* the references of refs whose cell exists and holds a number
NumericRefs(sh, refs) ==
  {r \in refs : HasCell(sh, r) /\ CellOf(sh, r).value.t = "str"
                  /\ CellOf(sh, r).value.s
                       \in {V_Zero, V_Six, V_OneAndHalf, V_TenExp, V_FivePadded}}

RECURSIVE TotalHalves(_, _)
TotalHalves(sh, refs) ==
  IF refs = {} THEN 0
  ELSE LET r == CHOOSE x \in refs : TRUE
       IN HalvesOf(CellOf(sh, r).value.s) + TotalHalves(sh, refs \ {r})

\* v is the number n/d: the int, or the double nearest to the quotient
NumberIs(v, n, d) ==
  \/ v.t = "int" /\ v.n * d = n
  \/ v.t = "float" /\ v = FDivInt(IntToDouble(n), d)

\* the formula cells of the document with their sheets
FormulaCells == {<<sh, c>> \in AllSheets \X UNION {Cells(sh) : sh \in AllSheets} :
                   c \in Cells(sh) /\ IsFormulaCell(c)}

\* C11: a cell holding AVERAGE over a range shows the mean of exactly the cells of
\* the rectangle that exist and hold a number (zero included); absent, empty and
\* non-numeric cells count neither in the sum nor in the count, and with no
\* numeric cell the result is the number 0.
C11_AverageOfNumericCells ==
  \A p \in FormulaCells :
    p[2].formula.s \in AverageRangeFormulas =>
      IF NumericRefs(p[1], RectOf(p[2].formula.s)) = {}
      THEN NumberIs(p[2].cachedValue, 0, 1)
      ELSE NumberIs(p[2].cachedValue,
                    TotalHalves(p[1], NumericRefs(p[1], RectOf(p[2].formula.s))),
                    2 * Cardinality(NumericRefs(p[1], RectOf(p[2].formula.s))))

\* AVERAGE(A1:B2) evaluated to 3.0 over a zero, a six, a non-numeric and an absent cell
C11_Witness ==
  \E p \in FormulaCells :
    /\ p[2].formula.s = F_AverageA1B2
    /\ p[2].cachedValue = Double(FALSE, <<3>>, 0)
    /\ HasCell(p[1], A1) /\ CellOf(p[1], A1).value = PyStr(V_Zero)
    /\ HasCell(p[1], A2) /\ CellOf(p[1], A2).value = PyStr(V_NotNumeric)
    /\ HasCell(p[1], B1) /\ CellOf(p[1], B1).value = PyStr(V_Six)
    /\ ~HasCell(p[1], B2)

\* C12: a cell holding SUM over a range shows the sum of the numbers in the
\* rectangle between the two corners, inclusive, skipping absent, empty and
\* non-numeric cells; the rectangle does not depend on the order of the corners.
C12_SumOfRectangle ==
  \A p \in FormulaCells :
    p[2].formula.s \in SumRangeFormulas =>
      NumberIs(p[2].cachedValue,
               TotalHalves(p[1], NumericRefs(p[1], RectOf(p[2].formula.s))), 2)

\* SUM(B2:A1), corners swapped, evaluated to 11.0 = 6 + 5, the five between
\* spaces outside ASCII, with a non-numeric and an empty cell in the rectangle
C12_Witness ==
  \E p \in FormulaCells :
    /\ p[2].formula.s = F_SumB2A1
    /\ p[2].cachedValue = Double(FALSE, <<1, 1>>, 0)
    /\ HasCell(p[1], A1) /\ CellOf(p[1], A1).value = PyStr(V_Six)
    /\ HasCell(p[1], A2) /\ CellOf(p[1], A2).value = PyStr(V_NotNumeric)
    /\ HasCell(p[1], B1) /\ CellOf(p[1], B1).value = PyStr(V_Empty)
    /\ HasCell(p[1], B2) /\ CellOf(p[1], B2).value = PyStr(V_FivePadded)

\* C17: a cell holding SUM of a comma list shows the sum of the numbers of the
\* listed cells, and a cell holding AVERAGE of a comma list shows its own formula
\* body as text.
C17_ListForSumOnly ==
  \A p \in FormulaCells :
    /\ p[2].formula.s \in SumListFormulas =>
         NumberIs(p[2].cachedValue,
                  TotalHalves(p[1], NumericRefs(p[1], ListOf(p[2].formula.s))), 2)
    /\ p[2].formula.s \in AverageListFormulas =>
         p[2].cachedValue = PyStr(Tail(p[2].formula.s))

\* SUM(A1, B2 ,A2) evaluated to 7.5 over listed cells holding 6, 1.5 and a text
C17_Witness ==
  \E p \in FormulaCells :
    /\ p[2].formula.s = F_SumListSpaced
    /\ p[2].cachedValue = Double(FALSE, <<1, 5>>, 0 - 1)
    /\ HasCell(p[1], A1) /\ CellOf(p[1], A1).value = PyStr(V_Six)
    /\ HasCell(p[1], B2) /\ CellOf(p[1], B2).value = PyStr(V_OneAndHalf)
    /\ HasCell(p[1], A2) /\ CellOf(p[1], A2).value = PyStr(V_NotNumeric)

----------------------------------------------------------------------------
(* The address codec on its own: one call at a time, its arguments and what it
   returned *)

MaxRow == 11
MaxCol == 702

T_A1x == <<"A","1","x">>
T_A0 == <<"A","0">>
T_a1 == <<"a","1">>
T_1A == <<"1","A">>
T_SpaceA1 == <<" ","A","1">>
T_AB12 == <<"A","B","1","2">>
T_A == <<"A">>
T_7 == <<"7">>
\* the texts cell_ref_to_indices is called with
RefTexts == {<<>>, A1, B2, T_AB12, T_A1x, T_A0, T_a1, T_1A, T_SpaceA1, T_A, T_7}

InitCodec == Init

\* cell_ref_to_indices(text)
ParseReference ==
  /\ call = NoCall
  /\ \E text \in RefTexts :
       call' = [fn |-> "cell_ref_to_indices", text |-> text,
                      result |-> cell_ref_to_indices(text)]
  /\ UNCHANGED <<spreadsheet_data, current_file, is_modified, formula_value, active_cell,
                 data_dir, uuids, ops, cvOnlyUsed, last>>

\* cell_ref_to_indices(indices_to_cell_ref(row, col))
ReferenceRoundTrip ==
  /\ call = NoCall
  /\ \E row \in 0..MaxRow, col \in 0..MaxCol :
       call' = [fn |-> "indices_to_cell_ref", row |-> row, col |-> col,
                      ref |-> indices_to_cell_ref(row, col),
                      result |-> cell_ref_to_indices(indices_to_cell_ref(row, col))]
  /\ UNCHANGED <<spreadsheet_data, current_file, is_modified, formula_value, active_cell,
                 data_dir, uuids, ops, cvOnlyUsed, last>>

\* column_to_index(index_to_column(col))
ColumnRoundTrip ==
  /\ call = NoCall
  /\ \E col \in 0..MaxCol :
       call' = [fn |-> "index_to_column", col |-> col,
                      letters |-> index_to_column(col),
                      result |-> column_to_index(index_to_column(col))]
  /\ UNCHANGED <<spreadsheet_data, current_file, is_modified, formula_value, active_cell,
                 data_dir, uuids, ops, cvOnlyUsed, last>>

\* the caller has taken the result
CodecReturn ==
  /\ call # NoCall
  /\ call' = NoCall
  /\ UNCHANGED <<spreadsheet_data, current_file, is_modified, formula_value, active_cell,
                 data_dir, uuids, ops, cvOnlyUsed, last>>

NextCodec ==
  \/ ParseReference
  \/ ReferenceRoundTrip
  \/ ColumnRoundTrip
  \/ CodecReturn

SpecCodec == InitCodec /\ [][NextCodec]_vars

\* C13: parse_reference yields a (row, col) pair only for a text that is, as a
\* whole, uppercase letters followed by digits denoting a positive integer; for
\* every other text it reports a failure, and it never yields a negative row.
C13_ParseReferenceWholeText ==
  call.fn = "cell_ref_to_indices" =>
    /\ call.result.ok <=> IsReference(call.text)
    /\ call.result.ok => call.result.rowIndex >= 0

\* C14: parsing the reference built from (row, col) gives (row, col) back, and
\* decoding the letters of a column index gives the index back, with 0 -> A,
\* 25 -> Z, 26 -> AA and 701 -> ZZ.
C14_CodecRoundTrip ==
  /\ call.fn = "indices_to_cell_ref" =>
       call.result =
         [ok |-> TRUE, rowIndex |-> call.row, colIndex |-> call.col]
  /\ call.fn = "index_to_column" =>
       /\ call.result = call.col
       /\ call.col = 0 => call.letters = <<"A">>
       /\ call.col = 25 => call.letters = <<"Z">>
       /\ call.col = 26 => call.letters = <<"A","A">>
       /\ call.col = 701 => call.letters = <<"Z","Z">>

\* the reference of row 11, column 701 is "ZZ12" and parses back to (11, 701)
C14_Witness ==
  /\ call.fn = "indices_to_cell_ref"
  /\ call.row = 11 /\ call.col = 701
  /\ call.ref = <<"Z","Z","1","2">>
  /\ call.result = [ok |-> TRUE, rowIndex |-> 11, colIndex |-> 701]

----------------------------------------------------------------------------
(* Properties of the file identity, the sheet sequence and the store *)

\* the record stored under the document's id, when it is a complete one
OwnRecord == data_dir[current_file.id]

\* C15: a successful save of a document without a file identity writes under an id
\* that nothing was stored under, with createdAt = updatedAt = the time of the save;
\* a successful save of a document that has an identity (from an earlier save or
\* from a load) writes under that id, keeps createdAt and sets updatedAt to the
\* time of the save; no save touches a record stored under another id, and
\* the identity always agrees with the complete record stored under its id.
C15_SaveKeepsIdentity ==
  /\ [](current_file.some /\ OwnRecord.kind = "record" =>
          /\ OwnRecord.id = current_file.id
          /\ OwnRecord.createdAt = current_file.createdAt)
  /\ [][last' = "saving" =>
          /\ \A f \in FileIds \ {call'.file_data.id} : data_dir'[f] = data_dir[f]
          /\ IF current_file.some
             THEN call'.file_data.id = current_file.id
             ELSE data_dir[call'.file_data.id] = NoRecord]_vars
  /\ [][last' = "save_ok" =>
          /\ current_file'.some
          /\ current_file'.updatedAt = call.file_data.updatedAt
          /\ data_dir'[current_file'.id].kind = "record"
          /\ data_dir'[current_file'.id].updatedAt = call.file_data.updatedAt
          /\ \A f \in FileIds \ {current_file'.id} : data_dir'[f] = data_dir[f]
          /\ IF current_file.some
             THEN /\ current_file'.id = current_file.id
                  /\ current_file'.createdAt = current_file.createdAt
             ELSE /\ call.replaced = NoRecord
                  /\ current_file'.createdAt = call.file_data.updatedAt]_vars

\* a document saved for the second time under its id, at another time than it was
\* created, while the record of an earlier document is stored under another id
C15_Witness ==
  /\ last = "save_ok"
  /\ current_file.some
  /\ current_file.id \notin OtherFileIds
  /\ current_file.createdAt # current_file.updatedAt
  /\ OwnRecord.kind = "record" /\ OwnRecord.updatedAt = current_file.updatedAt
  /\ \E f \in FileIds \ ({current_file.id} \cup OtherFileIds) : data_dir[f].kind = "record"

\* C16: update_cell called with a sheet id that names no sheet reports a failure
\* to its caller (the outcome is not that of a call that returned without a
\* report) and changes neither the document nor the dirty flag.
C16_UnknownSheetReported ==
  [][\A sheet_id \in SheetIdArgs, cell_ref \in Refs, data \in Updates :
       (FindSheet(Sheets, sheet_id) = 0 /\ update_cell(sheet_id, cell_ref, data)) =>
         /\ last' # "other"
         /\ UNCHANGED <<spreadsheet_data, is_modified>>]_vars

\* the listing of the toolbar (lines 393-401): id and name of every file that
\* json.load reads; a file that does not parse is skipped
available_files(dir) ==
  {<<dir[f].id, dir[f].name>> : f \in {g \in FileIds : dir[g].kind = "record"}}

\* what load_spreadsheet can read (lines 235-236): the complete records
Loadable(dir) == [f \in FileIds |-> IF dir[f].kind = "record" THEN dir[f] ELSE NoRecord]

\* the directory as it was when the save that is ending began
BeforeSave ==
  IF call.fn = "save_spreadsheet"
  THEN [data_dir EXCEPT ![call.file_data.id] = call.replaced]
  ELSE data_dir

\* C18: a failed save leaves the persisted store, as the listing and load see it,
\* as it was: no partial record becomes visible, and a record saved earlier under
\* the id is still loadable with its content.
C18_FailedSaveKeepsStore ==
  [][last' = "save_failed" =>
       /\ available_files(data_dir') = available_files(BeforeSave)
       /\ Loadable(data_dir') = Loadable(BeforeSave)]_vars

\* C19: add_sheet appends one sheet without cells, leaves the sheets before it
\* as they were, and the active-sheet pointer resolves to the appended sheet.
C19_AddSheetActivatesNewSheet ==
  [][add_sheet =>
       /\ Len(spreadsheet_data'.sheets) = Len(Sheets) + 1
       /\ SubSeq(spreadsheet_data'.sheets, 1, Len(Sheets)) = Sheets
       /\ spreadsheet_data'.sheets[Len(Sheets) + 1].cells = <<>>
       /\ FindSheet(spreadsheet_data'.sheets, spreadsheet_data'.activeSheet)
            = Len(Sheets) + 1]_vars

\* C20: no two sheets of the document have the same id.
C20_SheetIdsUnique ==
  \A i, j \in 1..Len(Sheets) : i # j => Sheets[i].id # Sheets[j].id

----------------------------------------------------------------------------
(* Formula bar: selecting a cell, typing into the bar, committing the bar *)

F_SumA1 == <<"=","S","U","M","(","A","1",":","A","1",")">>
\* the texts typed into the formula bar
BarTexts == {<<>>, V_Five, V_Nine, F_SumA1}

Selected(cell_ref) == [some |-> TRUE, ref |-> cell_ref]

\* lines 320-327: the formula when the cell has the key 'formula', whatever it
\* holds; else cell.get('value', ''); "" when the sheet or the cell is missing
LoadedValue(sheets, k, cell_ref) ==
  IF k # 0 /\ HasCell(sheets[k], cell_ref)
  THEN IF CellOf(sheets[k], cell_ref).formula # Absent
       THEN CellOf(sheets[k], cell_ref).formula
       ELSE IF CellOf(sheets[k], cell_ref).value # Absent
            THEN CellOf(sheets[k], cell_ref).value
            ELSE PyStr(<<>>)
  ELSE PyStr(<<>>)

\* handle_cell_click(cell_ref)
handle_cell_click(cell_ref) ==
  /\ active_cell' = Selected(cell_ref)
  /\ formula_value' =
       LoadedValue(Sheets, FindSheet(Sheets, spreadsheet_data.activeSheet), cell_ref)
  /\ last' = "clicked"
  /\ UNCHANGED <<spreadsheet_data, current_file, is_modified, data_dir, uuids, ops,
                 cvOnlyUsed, call>>

\* line 443: the text of the input box becomes the bar's value
formula_input(text) ==
  /\ formula_value' = PyStr(text)
  /\ last' = "other"
  /\ UNCHANGED <<spreadsheet_data, current_file, is_modified, active_cell, data_dir, uuids,
                 ops, cvOnlyUsed, call>>

\* value and isinstance(value, str) and value.startswith('=')
IsFormulaInput(value) == Truthy(value) /\ value.t = "str" /\ StartsWith(value.s, <<"=">>)

\* the dict commit_formula_value passes to update_cell (lines 338-347)
CommitData(value) ==
  IF IsFormulaInput(value)
  THEN [NoData EXCEPT !.formula = value, !.value = PyNone]
  ELSE [NoData EXCEPT !.value = value, !.formula = PyNone]

\* not st.session_state.active_cell: None, or the empty reference
NoActiveCell == active_cell = NoCell \/ active_cell.ref = <<>>

\* commit_formula_value(): nothing without an active cell (line 331)
commit_formula_value ==
  IF NoActiveCell
  THEN /\ last' = "other"
       /\ UNCHANGED <<spreadsheet_data, current_file, is_modified, formula_value,
                      active_cell, data_dir, uuids, ops, cvOnlyUsed, call>>
  ELSE update_cell(spreadsheet_data.activeSheet, active_cell.ref, CommitData(formula_value))

InitBar == Init

\* the references a click selects; the empty one stands for a falsy reference
ClickRefs == Refs \cup {<<>>}

HandleCellClick == Idle /\ \E cell_ref \in ClickRefs : handle_cell_click(cell_ref)
FormulaInput == Idle /\ \E text \in BarTexts : formula_input(text)
CommitFormulaValue == Idle /\ commit_formula_value

NextBar ==
  \/ HandleCellClick
  \/ FormulaInput
  \/ CommitFormulaValue

SpecBar == InitBar /\ [][NextBar]_vars

\* what the grid shows at the selected cell of the active sheet of a document
ActiveDisplay(data, cell_ref) ==
  IF FindSheet(data.sheets, data.activeSheet) = 0 THEN <<>>
  ELSE DisplayAt(data.sheets[FindSheet(data.sheets, data.activeSheet)], cell_ref)

\* C21: selecting a cell and committing the formula bar without editing it leaves
\* the display value of that cell unchanged, whether the cell is a literal, a
\* formula or absent.
C21_ClickThenCommitKeepsDisplay ==
  [][(last = "clicked" /\ ~NoActiveCell /\ commit_formula_value) =>
       ActiveDisplay(spreadsheet_data', active_cell.ref)
         = ActiveDisplay(spreadsheet_data, active_cell.ref)]_vars

====
